---- MODULE Spec2Model ----
(***************************************************************************)
(* SuperSearch tool adapters of instantly-mcp                              *)
(* (src/src/instantly_mcp/tools/supersearch.py) and the input models they  *)
(* read (src/src/instantly_mcp/models/supersearch.py).                     *)
(*                                                                         *)
(* An adapter invocation validates the caller's keyword arguments into an  *)
(* input model, builds a request, suspends at its single transport call    *)
(* and, when the transport answers or raises, finalizes its result.        *)
(*                                                                         *)
(* Encoding of Python values:                                              *)
(*   Optional[T]   None is <<>>, a value v is <<v>>                        *)
(*   kwargs        a function whose DOMAIN is the set of keywords given    *)
(*   dict          a function from its keys to its values                  *)
(*   list          a sequence                                              *)
(*   f-string      the sequence of its literal and interpolated parts      *)
(***************************************************************************)
EXTENDS Integers, Sequences, FiniteSets, TLC

VARIABLES pc, tool, args, params, request, outcome, ret, ncalls

vars == <<pc, tool, args, params, request, outcome, ret, ncalls>>

----------------------------------------------------------------------------
(* Python values *)

None == <<>>
Some(v) == <<v>>
IsNone(o) == Len(o) = 0
Get(o) == o[1]

EmptyDict == <<>>
Put(d, k, v) == [x \in (DOMAIN d) \cup {k} |-> IF x = k THEN v ELSE d[x]]
Has(d, k) == k \in DOMAIN d

\* `if x:` on an Optional[str], an Optional[int], an Optional[list]
TruthyStr(o) == ~IsNone(o) /\ Get(o) # ""
TruthyInt(o) == ~IsNone(o) /\ Get(o) # 0
TruthyList(o) == ~IsNone(o) /\ Len(Get(o)) > 0

\* A keyword argument, or the field's default when the caller gave none.
Arg(kw, k, default) == IF k \in DOMAIN kw THEN kw[k] ELSE default

\* str_strip_whitespace=True, on the strings the callers of this model pass.
StripWhitespace(s) ==
    CASE s = " " -> ""
      [] s = " abc " -> "abc"
      [] OTHER -> s
StripOpt(o) == IF IsNone(o) THEN None ELSE Some(StripWhitespace(Get(o)))

\* The outcome of constructing an input model.
Invalid == [ok |-> FALSE]
Valid(m) == [ok |-> TRUE, model |-> m]

----------------------------------------------------------------------------
(* models/supersearch.py: search filter models *)

IEFields == {"title", "company_name", "industry", "keyword_filter"}
ListFields == {"department", "level", "employee_count", "revenue", "domains",
               "funding_type", "news"}
BoolFields == {"skip_owned_leads", "show_one_lead_per_company"}
FilterFields == {"locations", "look_alike"} \cup IEFields \cup ListFields \cup BoolFields

\* Field(alias=...): the keyword a field also accepts.
FieldAlias(f) ==
    CASE f = "company_name" -> "companyName"
      [] f = "employee_count" -> "employeeCount"
      [] f = "look_alike" -> "lookAlike"
      [] f = "keyword_filter" -> "keywordFilter"
      [] f = "funding_type" -> "fundingType"
      [] f = "skip_owned_leads" -> "skipOwnedLeads"
      [] f = "show_one_lead_per_company" -> "showOneLeadPerCompany"
      [] OTHER -> f

\* Mutant: only the field name is accepted; a keyword that is an alias is
\* an extra keyword and is ignored.
Supplied_name_only(kw, f) ==
    IF f \in DOMAIN kw THEN <<kw[f]>> ELSE <<>>

\* populate_by_name=True: the alias is looked up first, then the field name.
\* The result is <<>> when the caller gave neither, <<x>> when it gave x.
Supplied(kw, f) ==
    IF FieldAlias(f) \in DOMAIN kw THEN <<kw[FieldAlias(f)]>>
    ELSE IF f \in DOMAIN kw THEN <<kw[f]>>
    ELSE <<>>

\* Mutant: the flags default to true.
BoolFlagDefault_true == TRUE

\* Field(default=False) of skip_owned_leads and show_one_lead_per_company.
BoolFlagDefault == FALSE

IncludeExcludeFilter(kw) ==
    [include |-> Arg(kw, "include", None), exclude |-> Arg(kw, "exclude", None)]

LocationItemFields == {"place_id", "label", "city", "state", "country"}

LocationItem(kw) ==
    [f \in LocationItemFields |->
        IF f = "place_id"
        THEN (IF "placeId" \in DOMAIN kw THEN kw["placeId"]
              ELSE Arg(kw, "place_id", None))
        ELSE Arg(kw, f, None)]

LocationItems(o) ==
    IF IsNone(o) THEN None
    ELSE Some([i \in 1..Len(Get(o)) |-> LocationItem(Get(o)[i])])

LocationFilter(kw) ==
    [include |-> LocationItems(Arg(kw, "include", None)),
     exclude |-> LocationItems(Arg(kw, "exclude", None))]

\* One field of SuperSearchFilters from what the caller supplied for it.
FilterField(f, sup) ==
    IF f \in BoolFields
    THEN (IF Len(sup) = 0 THEN BoolFlagDefault ELSE Get(sup[1]))
    ELSE IF Len(sup) = 0 \/ IsNone(sup[1]) THEN None
    ELSE IF f \in IEFields THEN Some(IncludeExcludeFilter(Get(sup[1])))
    ELSE IF f = "locations" THEN Some(LocationFilter(Get(sup[1])))
    ELSE sup[1]

\* SuperSearchFilters(**kw): the two flags are `bool`, so None is refused.
SuperSearchFilters(kw) ==
    IF \E f \in BoolFields : Len(Supplied(kw, f)) = 1 /\ IsNone(Supplied(kw, f)[1])
    THEN Invalid
    ELSE Valid([f \in FilterFields |-> FilterField(f, Supplied(kw, f))])

----------------------------------------------------------------------------
(* model_dump(mode='json', exclude_none=True) of a SuperSearchFilters.    *)
(* SuperSearchFilters does not override model_dump, so the call runs the   *)
(* library's serializer on the whole value: it walks the nested models     *)
(* itself, dropping every None field (exclude_none reaches every level),   *)
(* and names each key after its field (by_alias is not asked for). The     *)
(* model_dump methods that IncludeExcludeFilter, LocationItem and          *)
(* LocationFilter define run only when called on such a value directly,    *)
(* which no adapter does.                                                  *)

\* IncludeExcludeFilter.model_dump, called directly: empty lists are removed
\* and, when nothing is left, include is put back as an empty list.
IncludeExcludeFilter_model_dump(m) ==
    LET kept == {k \in {"include", "exclude"} : ~IsNone(m[k]) /\ Len(Get(m[k])) > 0}
    IN  IF kept = {} THEN [include |-> <<>>]
        ELSE [k \in kept |-> Get(m[k])]

\* Mutant: an unset include or exclude is dumped as an empty list.
DumpIncludeExclude_keep_empty(m) ==
    [k \in {"include", "exclude"} |-> IF IsNone(m[k]) THEN <<>> ELSE Get(m[k])]

DumpIncludeExclude(m) ==
    [k \in {k \in {"include", "exclude"} : ~IsNone(m[k])} |-> Get(m[k])]

\* Mutant: exclude_none stops at the filter, so an unset field of an item is
\* kept (its null written here as the empty text).
DumpLocationItem_keep_unset(m) ==
    [k \in LocationItemFields |-> IF IsNone(m[k]) THEN "" ELSE Get(m[k])]

DumpLocationItem(m) ==
    [k \in {k \in LocationItemFields : ~IsNone(m[k])} |-> Get(m[k])]

DumpLocationFilter(m) ==
    [k \in {k \in {"include", "exclude"} : ~IsNone(m[k])} |->
        [i \in 1..Len(Get(m[k])) |-> DumpLocationItem(Get(m[k])[i])]]

\* Mutant: a list filter given as the empty list is left out, as `if value:`
\* would do.
DumpFilters_drop_empty(m) ==
    [items |->
        [f \in {f \in FilterFields :
                    \/ f \in BoolFields
                    \/ ~IsNone(m[f]) /\ (f \in ListFields => Len(Get(m[f])) > 0)} |->
            CASE f \in BoolFields -> m[f]
              [] f \in IEFields -> DumpIncludeExclude(Get(m[f]))
              [] f = "locations" -> DumpLocationFilter(Get(m[f]))
              [] OTHER -> Get(m[f])],
     nulls |-> {}]

\* The dumped mapping, as its non-null items and the keys it holds as null.
DumpFilters(m) ==
    [items |->
        [f \in {f \in FilterFields : f \in BoolFields \/ ~IsNone(m[f])} |->
            CASE f \in BoolFields -> m[f]
              [] f \in IEFields -> DumpIncludeExclude(Get(m[f]))
              [] f = "locations" -> DumpLocationFilter(Get(m[f]))
              [] OTHER -> Get(m[f])],
     nulls |-> {}]

----------------------------------------------------------------------------
(* models/supersearch.py: EnrichmentType and SearchSuperSearchLeadsInput *)

EnrichmentType == {"work_email_enrichment", "fully_enriched_profile",
                   "email_verification", "joblisting", "technologies", "news",
                   "funding", "ai_enrichment", "custom_flow"}

SearchLimitDefault == 100
SearchLimitMin == 1
SearchLimitMax == 10000

SearchSuperSearchLeadsInput(kw) ==
    LET filters == IF "search_filters" \in DOMAIN kw /\ ~IsNone(kw["search_filters"])
                   THEN SuperSearchFilters(Get(kw["search_filters"]))
                   ELSE Invalid
        etypes == Arg(kw, "enrichment_types", None)
        limit == Arg(kw, "limit", Some(SearchLimitDefault))
    IN  IF \/ ~filters.ok
           \/ ~IsNone(etypes) /\ \E i \in 1..Len(Get(etypes)) : Get(etypes)[i] \notin EnrichmentType
           \/ ~IsNone(limit) /\ ~(SearchLimitMin <= Get(limit) /\ Get(limit) <= SearchLimitMax)
        THEN Invalid
        ELSE Valid([list_id |-> StripOpt(Arg(kw, "list_id", None)),
                    campaign_id |-> StripOpt(Arg(kw, "campaign_id", None)),
                    search_filters |-> filters.model,
                    enrichment_types |-> etypes,
                    limit |-> limit,
                    search_name |-> StripOpt(Arg(kw, "search_name", None)),
                    list_name |-> StripOpt(Arg(kw, "list_name", None))])

----------------------------------------------------------------------------
(* The transport collaborator, and what an invocation hands back *)

\* client.get / client.post / client.patch with the keyword arguments given.
Call(method, path, kw) == [method |-> method, path |-> path, kw |-> kw]
NoCall == [method |-> "none", path |-> <<>>, kw |-> EmptyDict]

\* A JSON null where the response could hold a mapping.
Null == [null |-> TRUE]

\* A parsed response: a mapping, or some other JSON value.
Dict(d) == [isdict |-> TRUE, val |-> d]
NonDict(v) == [isdict |-> FALSE, val |-> v]

\* json.dumps(v, indent=2); json.loads gives the value back.
JsonDumps(v) == [indent |-> 2, doc |-> v]
JsonLoads(t) == t.doc

\* The transport's answer to one call.
Answered(r) == [raised |-> FALSE, result |-> r]
Faulted(e) == [raised |-> TRUE, fault |-> e]
Pending == [raised |-> FALSE, result |-> NonDict("pending")]

\* str(e)
Str(e) == e.text

\* How an invocation ends: with text, or with an exception reaching the caller.
NotFinished == [kind |-> "none"]
Returns(text) == [kind |-> "text", text |-> text]
Raises(e) == [kind |-> "exception", exc |-> e]

ValidationError == [type |-> "ValidationError", text |-> "validation error"]

----------------------------------------------------------------------------
(* tools/supersearch.py: search_supersearch_leads *)

\* for key, value in raw_filters.items(): if value is None: continue
search_copy_filters(raw) ==
    [k \in (DOMAIN raw.items) \ raw.nulls |-> raw.items[k]]

search_ensure_flags(sf) ==
    LET a == IF ~Has(sf, "skip_owned_leads")
             THEN Put(sf, "skip_owned_leads", FALSE) ELSE sf
    IN  IF ~Has(a, "show_one_lead_per_company")
        THEN Put(a, "show_one_lead_per_company", FALSE) ELSE a

search_filters_of(p) ==
    search_ensure_flags(search_copy_filters(DumpFilters(p.search_filters)))

\* Mutant: the campaign is assigned first, so the list overwrites it.
search_resource_list_last(body, p) ==
    LET a == IF TruthyStr(p.campaign_id)
             THEN Put(Put(body, "resource_id", Get(p.campaign_id)), "resource_type", 1)
             ELSE body
    IN  IF TruthyStr(p.list_id)
        THEN Put(Put(a, "resource_id", Get(p.list_id)), "resource_type", 2)
        ELSE a

\* Mutant: the two resource-type tags are exchanged.
search_resource_tags_swapped(body, p) ==
    LET a == IF TruthyStr(p.list_id)
             THEN Put(Put(body, "resource_id", Get(p.list_id)), "resource_type", 1)
             ELSE body
    IN  IF TruthyStr(p.campaign_id)
        THEN Put(Put(a, "resource_id", Get(p.campaign_id)), "resource_type", 2)
        ELSE a

search_resource(body, p) ==
    LET a == IF TruthyStr(p.list_id)
             THEN Put(Put(body, "resource_id", Get(p.list_id)), "resource_type", 2)
             ELSE body
    IN  IF TruthyStr(p.campaign_id)
        THEN Put(Put(a, "resource_id", Get(p.campaign_id)), "resource_type", 1)
        ELSE a

RECURSIVE SetEach(_, _)
\* for etype in params.enrichment_types: body[etype] = True
SetEach(body, etypes) ==
    IF Len(etypes) = 0 THEN body
    ELSE SetEach(Put(body, Head(etypes), TRUE), Tail(etypes))

\* Mutant: the default kind is set whatever the caller listed.
search_enrichment_always_default(body, p) ==
    IF TruthyList(p.enrichment_types)
    THEN SetEach(Put(body, "work_email_enrichment", TRUE), Get(p.enrichment_types))
    ELSE Put(body, "work_email_enrichment", TRUE)

search_enrichment(body, p) ==
    IF TruthyList(p.enrichment_types)
    THEN SetEach(body, Get(p.enrichment_types))
    ELSE Put(body, "work_email_enrichment", TRUE)

search_limit_and_names(body, p) ==
    LET a == IF TruthyInt(p.limit) THEN Put(body, "limit", Get(p.limit)) ELSE body
        b == IF TruthyStr(p.search_name)
             THEN Put(a, "search_name", Get(p.search_name)) ELSE a
    IN  IF TruthyStr(p.list_name) THEN Put(b, "list_name", Get(p.list_name)) ELSE b

search_body(p) ==
    search_limit_and_names(
        search_enrichment(
            search_resource([search_filters |-> search_filters_of(p)], p), p), p)

search_request(p) ==
    Call("POST", <<"/supersearch-enrichment/enrich-leads-from-supersearch">>,
         [json |-> search_body(p)])

\* except Exception as e: the diagnostic the adapter returns instead
search_on_fault(e, body) ==
    Returns(JsonDumps(Dict([error |-> Str(e), debug_payload |-> body])))

\* result.get(k), read for its truth value: a missing key is None
GetStr(d, k) == IF Has(d, k) THEN d[k] ELSE ""

\* The identifiers read in the reverse order: campaign_id, list_id, resource_id.
search_annotate_campaign_first(result) ==
    IF result.isdict
    THEN LET d == result.val
             resource_id == IF GetStr(d, "campaign_id") # "" THEN d["campaign_id"]
                            ELSE IF GetStr(d, "list_id") # "" THEN d["list_id"]
                            ELSE GetStr(d, "resource_id")
         IN  IF resource_id # ""
             THEN Dict(Put(d, "_next_steps",
                    <<"Enrichment started. Use get_enrichment_status(resource_id='",
                      resource_id,
                      "') to check progress, then list_leads to retrieve results.">>))
             ELSE result
    ELSE result

search_annotate(result) ==
    IF result.isdict
    THEN LET d == result.val
             resource_id == IF GetStr(d, "resource_id") # "" THEN d["resource_id"]
                            ELSE IF GetStr(d, "list_id") # "" THEN d["list_id"]
                            ELSE GetStr(d, "campaign_id")
         IN  IF resource_id # ""
             THEN Dict(Put(d, "_next_steps",
                    <<"Enrichment started. Use get_enrichment_status(resource_id='",
                      resource_id,
                      "') to check progress, then list_leads to retrieve results.">>))
             ELSE result
    ELSE result

search_on_result(result) == Returns(JsonDumps(search_annotate(result)))

----------------------------------------------------------------------------
(* tools/supersearch.py: count_leads, preview_leads *)

\* The input models of count_leads and preview_leads: the filters alone.
CountLeadsInput(kw) ==
    IF "search_filters" \in DOMAIN kw /\ ~IsNone(kw["search_filters"])
       /\ SuperSearchFilters(Get(kw["search_filters"])).ok
    THEN Valid([search_filters |-> SuperSearchFilters(Get(kw["search_filters"])).model])
    ELSE Invalid

PreviewLeadsInput(kw) ==
    IF "search_filters" \in DOMAIN kw /\ ~IsNone(kw["search_filters"])
       /\ SuperSearchFilters(Get(kw["search_filters"])).ok
    THEN Valid([search_filters |-> SuperSearchFilters(Get(kw["search_filters"])).model])
    ELSE Invalid

\* for key, value in raw_filters.items(): if value is not None: copy
count_copy_filters(raw) ==
    [k \in {k \in DOMAIN raw.items : k \notin raw.nulls} |-> raw.items[k]]

count_ensure_flags(sf) ==
    LET a == IF ~Has(sf, "skip_owned_leads")
             THEN Put(sf, "skip_owned_leads", FALSE) ELSE sf
    IN  IF ~Has(a, "show_one_lead_per_company")
        THEN Put(a, "show_one_lead_per_company", FALSE) ELSE a

\* Mutant: the body also carries the import adapter's default enrichment flag.
count_body_with_enrichment(p) ==
    [search_filters |->
        count_ensure_flags(count_copy_filters(DumpFilters(p.search_filters))),
     work_email_enrichment |-> TRUE]

count_body(p) ==
    [search_filters |->
        count_ensure_flags(count_copy_filters(DumpFilters(p.search_filters)))]

count_request(p) ==
    Call("POST", <<"/supersearch-enrichment/count-leads-from-supersearch">>,
         [json |-> count_body(p)])

\* Mutant: the diagnostic holds the filters, not the whole body.
count_on_fault_filters_only(e, body) ==
    Returns(JsonDumps(Dict([error |-> Str(e), debug_payload |-> body["search_filters"]])))

count_on_fault(e, body) ==
    Returns(JsonDumps(Dict([error |-> Str(e), debug_payload |-> body])))

RECURSIVE Thousands(_)
\* f"{n:,}": the groups of three digits of n, most significant first
Thousands(n) ==
    IF n < 1000 THEN <<n>> ELSE Append(Thousands(n \div 1000), n % 1000)

\* result.get(k, default)
GetOr(d, k, default) == IF Has(d, k) THEN d[k] ELSE default

count_annotate(result) ==
    IF result.isdict
    THEN Dict(Put(result.val, "_guidance",
            <<"Found ", Thousands(GetOr(result.val, "number_of_leads", 0)),
              " leads matching your criteria. To import and enrich these leads, use search_supersearch_leads with the same filters.">>))
    ELSE result

count_on_result(result) == Returns(JsonDumps(count_annotate(result)))

\* The flags are not copied, so each is sent as false.
preview_copy_filters_no_flags(raw) ==
    [k \in {k \in DOMAIN raw.items : k \notin raw.nulls \cup BoolFields} |->
        raw.items[k]]

preview_copy_filters(raw) ==
    [k \in {k \in DOMAIN raw.items : k \notin raw.nulls} |-> raw.items[k]]

preview_ensure_flags(sf) ==
    LET a == IF ~Has(sf, "skip_owned_leads")
             THEN Put(sf, "skip_owned_leads", FALSE) ELSE sf
    IN  IF ~Has(a, "show_one_lead_per_company")
        THEN Put(a, "show_one_lead_per_company", FALSE) ELSE a

preview_body(p) ==
    [search_filters |->
        preview_ensure_flags(preview_copy_filters(DumpFilters(p.search_filters)))]

preview_request(p) ==
    Call("POST", <<"/supersearch-enrichment/preview-leads-from-supersearch">>,
         [json |-> preview_body(p)])

preview_on_fault(e, body) ==
    Returns(JsonDumps(Dict([error |-> Str(e), debug_payload |-> body])))

preview_annotate(result) ==
    IF result.isdict
    THEN Dict(Put(result.val, "_guidance",
            <<"Previewing ", Len(GetOr(result.val, "leads", <<>>)),
              " sample leads from ",
              Thousands(GetOr(result.val, "number_of_leads", 0)),
              " total matches. To import and enrich these leads, use search_supersearch_leads with the same filters.">>))
    ELSE result

preview_on_result(result) == Returns(JsonDumps(preview_annotate(result)))

----------------------------------------------------------------------------
(* models/supersearch.py: the input models that name an existing resource *)

\* A required `str` field: missing or None is refused, the text is stripped.
RequiredStr(kw, k) ==
    IF k \in DOMAIN kw /\ ~IsNone(kw[k]) THEN Some(StripWhitespace(Get(kw[k]))) ELSE None

GetEnrichmentStatusInput(kw) ==
    IF IsNone(RequiredStr(kw, "resource_id")) THEN Invalid
    ELSE Valid([resource_id |-> Get(RequiredStr(kw, "resource_id"))])

CreateEnrichmentInput(kw) ==
    LET etype == Arg(kw, "enrichment_type", Some("work_email_enrichment"))
    IN  IF \/ IsNone(RequiredStr(kw, "resource_id"))
           \/ IsNone(etype)
           \/ ~IsNone(etype) /\ Get(etype) \notin EnrichmentType
        THEN Invalid
        ELSE Valid([resource_id |-> Get(RequiredStr(kw, "resource_id")),
                    enrichment_type |-> Get(etype),
                    auto_update |-> Arg(kw, "auto_update", None),
                    is_evergreen |-> Arg(kw, "is_evergreen", None),
                    skip_already_enriched |-> Arg(kw, "skip_already_enriched", Some(TRUE))])

RunEnrichmentInput(kw) ==
    LET etype == Arg(kw, "enrichment_type", None)
    IN  IF \/ IsNone(RequiredStr(kw, "resource_id"))
           \/ ~IsNone(etype) /\ Get(etype) \notin EnrichmentType
        THEN Invalid
        ELSE Valid([resource_id |-> Get(RequiredStr(kw, "resource_id")),
                    lead_ids |-> Arg(kw, "lead_ids", None),
                    enrichment_type |-> etype])

HistoryLimitDefault == 50
HistoryLimitMin == 1
HistoryLimitMax == 100

\* Mutant: the limit field is declared without ge and le.
GetEnrichmentHistoryInput_unbounded(kw) ==
    IF IsNone(RequiredStr(kw, "resource_id")) THEN Invalid
    ELSE Valid([resource_id |-> Get(RequiredStr(kw, "resource_id")),
                limit |-> Arg(kw, "limit", Some(HistoryLimitDefault)),
                starting_after |-> StripOpt(Arg(kw, "starting_after", None))])

GetEnrichmentHistoryInput(kw) ==
    LET limit == Arg(kw, "limit", Some(HistoryLimitDefault))
    IN  IF \/ IsNone(RequiredStr(kw, "resource_id"))
           \/ ~IsNone(limit) /\ ~(HistoryLimitMin <= Get(limit) /\ Get(limit) <= HistoryLimitMax)
        THEN Invalid
        ELSE Valid([resource_id |-> Get(RequiredStr(kw, "resource_id")),
                    limit |-> limit,
                    starting_after |-> StripOpt(Arg(kw, "starting_after", None))])

\* The AI-enrichment input the adapter reads: target and resource-type tag,
\* prompt, output column, model-version tag, and the optional columns, flags
\* and limit.
ModelVersion == {"3.5", "4.0", "gpt-4o", "gpt-4.1", "gpt-4.1-mini",
                 "claude-3.7-sonnet", "o3"}

CreateAIEnrichmentInput(kw) ==
    IF \/ IsNone(RequiredStr(kw, "resource_id"))
       \/ IsNone(RequiredStr(kw, "prompt"))
       \/ IsNone(RequiredStr(kw, "output_column"))
       \/ ~("resource_type" \in DOMAIN kw /\ ~IsNone(kw["resource_type"]))
       \/ ~("model_version" \in DOMAIN kw /\ ~IsNone(kw["model_version"]))
    THEN Invalid
    ELSE Valid([resource_id |-> Get(RequiredStr(kw, "resource_id")),
                resource_type |-> Get(kw["resource_type"]),
                prompt |-> Get(RequiredStr(kw, "prompt")),
                output_column |-> Get(RequiredStr(kw, "output_column")),
                model_version |-> Get(kw["model_version"]),
                input_columns |-> Arg(kw, "input_columns", None),
                overwrite |-> Arg(kw, "overwrite", None),
                auto_update |-> Arg(kw, "auto_update", None),
                limit |-> Arg(kw, "limit", None)])

\* The settings-update input the adapter reads: the resource and three
\* optional flags.
UpdateEnrichmentSettingsInput(kw) ==
    IF IsNone(RequiredStr(kw, "resource_id")) THEN Invalid
    ELSE Valid([resource_id |-> Get(RequiredStr(kw, "resource_id")),
                auto_update |-> Arg(kw, "auto_update", None),
                skip_rows_without_email |-> Arg(kw, "skip_rows_without_email", None),
                is_evergreen |-> Arg(kw, "is_evergreen", None)])

----------------------------------------------------------------------------
(* tools/supersearch.py: the adapters that name an existing resource *)

\* `if x is not None: body[k] = x`
PutIfSet(body, k, o) == IF ~IsNone(o) THEN Put(body, k, Get(o)) ELSE body

status_request(p) ==
    Call("GET", <<"/supersearch-enrichment/", p.resource_id>>, EmptyDict)

\* No try: a fault of the transport reaches the caller.
status_on_fault(e, req) == Raises(e)

status_on_result(result) == Returns(JsonDumps(result))

\* The flags are tested for truth, so one set to false is not sent.
create_body_flags_when_true(p) ==
    LET PutIfTrue(body, k, o) ==
            IF ~IsNone(o) /\ Get(o) THEN Put(body, k, Get(o)) ELSE body
    IN  PutIfTrue(
            PutIfTrue(
                PutIfTrue([resource_id |-> p.resource_id, type |-> p.enrichment_type],
                          "auto_update", p.auto_update),
                "is_evergreen", p.is_evergreen),
            "skip_already_enriched", p.skip_already_enriched)

create_body(p) ==
    PutIfSet(
        PutIfSet(
            PutIfSet([resource_id |-> p.resource_id, type |-> p.enrichment_type],
                     "auto_update", p.auto_update),
            "is_evergreen", p.is_evergreen),
        "skip_already_enriched", p.skip_already_enriched)

create_request(p) ==
    Call("POST", <<"/supersearch-enrichment">>, [json |-> create_body(p)])

create_on_fault(e, body) == Raises(e)

create_on_result(result, p) ==
    Returns(JsonDumps(
        IF result.isdict
        THEN Dict(Put(result.val, "_next_steps",
                <<"Enrichment created. Use get_enrichment_status(resource_id='",
                  p.resource_id, "') to check progress.">>))
        ELSE result))

ai_body(p) ==
    LET base == [resource_id |-> p.resource_id,
                 resource_type |-> p.resource_type,
                 prompt |-> p.prompt,
                 output_column |-> p.output_column,
                 model_version |-> p.model_version]
        a == IF TruthyList(p.input_columns)
             THEN Put(base, "input_columns", Get(p.input_columns)) ELSE base
    IN  PutIfSet(PutIfSet(PutIfSet(a, "overwrite", p.overwrite),
                          "auto_update", p.auto_update),
                 "limit", p.limit)

ai_request(p) ==
    Call("POST", <<"/supersearch-enrichment/ai">>, [json |-> ai_body(p)])

ai_on_fault(e, body) ==
    Returns(JsonDumps(Dict(
        [error |-> Str(e),
         debug_payload |-> body,
         hint |-> "Check that model_version is one of: 3.5, 4.0, gpt-4o, gpt-4.1, gpt-4.1-mini, claude-3.7-sonnet, o3"])))

ai_on_result(result, p) ==
    Returns(JsonDumps(
        IF result.isdict
        THEN Dict(Put(result.val, "_next_steps",
                <<"AI enrichment started. Use get_enrichment_status(resource_id='",
                  p.resource_id,
                  "') to check progress. Results will appear in the '",
                  p.output_column, "' column.">>))
        ELSE result))

run_body(p) ==
    LET a == IF TruthyList(p.lead_ids)
             THEN Put([resource_id |-> p.resource_id], "lead_ids", Get(p.lead_ids))
             ELSE [resource_id |-> p.resource_id]
    IN  IF TruthyStr(p.enrichment_type)
        THEN Put(a, "enrichment_type", Get(p.enrichment_type)) ELSE a

run_request(p) ==
    Call("POST", <<"/supersearch-enrichment/run">>, [json |-> run_body(p)])

\* Mutant: the adapter catches the fault as the search adapter does.
run_on_fault_caught(e, body) ==
    Returns(JsonDumps(Dict([error |-> Str(e), debug_payload |-> body])))

run_on_fault(e, body) == Raises(e)

run_on_result(result, p) ==
    Returns(JsonDumps(
        IF result.isdict
        THEN Dict(Put(result.val, "_next_steps",
                <<"Enrichment triggered. Use get_enrichment_status(resource_id='",
                  p.resource_id, "') to check progress.">>))
        ELSE result))

history_query(p) ==
    LET a == IF TruthyInt(p.limit) THEN Put(EmptyDict, "limit", Get(p.limit))
             ELSE EmptyDict
    IN  IF TruthyStr(p.starting_after)
        THEN Put(a, "starting_after", Get(p.starting_after)) ELSE a

\* Mutant: the resource id and the word history change places in the path.
history_request_id_first(p) ==
    Call("GET", <<"/supersearch-enrichment/", p.resource_id, "/history">>,
         [params |-> history_query(p)])

history_request(p) ==
    Call("GET", <<"/supersearch-enrichment/history/", p.resource_id>>,
         [params |-> history_query(p)])

\* Mutant: the adapter catches the fault and returns a diagnostic.
history_on_fault_caught(e, req) ==
    Returns(JsonDumps(Dict([error |-> Str(e), debug_payload |-> req.kw["params"]])))

history_on_fault(e, req) == Raises(e)

\* `pagination.get(...)` when the response holds "pagination": null
AttributeError ==
    [type |-> "AttributeError", text |-> "'NoneType' object has no attribute 'get'"]

history_on_result(result) ==
    IF result.isdict /\ GetOr(result.val, "pagination", EmptyDict) = Null
    THEN Raises(AttributeError)
    ELSE Returns(JsonDumps(
        IF result.isdict
        THEN LET next_cursor == GetStr(GetOr(result.val, "pagination", EmptyDict),
                                       "next_starting_after")
             IN  IF next_cursor # ""
                 THEN Dict(Put(result.val, "_pagination_hint",
                        <<"MORE RESULTS AVAILABLE. Call get_enrichment_history with starting_after='",
                          next_cursor, "' to get next page.">>))
                 ELSE result
        ELSE result))

\* Mutant: `if x:` for `if x is not None:`, so a flag is sent only when true.
settings_body_truthy(p) ==
    LET PutIfTrue(body, k, o) ==
            IF ~IsNone(o) /\ Get(o) THEN Put(body, k, Get(o)) ELSE body
    IN  PutIfTrue(
            PutIfTrue(
                PutIfTrue(EmptyDict, "auto_update", p.auto_update),
                "skip_rows_without_email", p.skip_rows_without_email),
            "is_evergreen", p.is_evergreen)

settings_body(p) ==
    PutIfSet(
        PutIfSet(
            PutIfSet(EmptyDict, "auto_update", p.auto_update),
            "skip_rows_without_email", p.skip_rows_without_email),
        "is_evergreen", p.is_evergreen)

\* `if not body:` the adapter returns before any call.
settings_nothing_to_update(p) == DOMAIN settings_body(p) = {}

settings_no_fields ==
    Returns(JsonDumps(Dict(
        [error |-> "No settings provided to update",
         hint |-> "Provide at least one of: auto_update, skip_rows_without_email, is_evergreen"])))

settings_request(p) ==
    Call("PATCH", <<"/supersearch-enrichment/", p.resource_id, "/settings">>,
         [json |-> settings_body(p)])

settings_on_fault(e, body) ==
    Returns(JsonDumps(Dict([error |-> Str(e), debug_payload |-> body])))

settings_on_result(result) == Returns(JsonDumps(result))

----------------------------------------------------------------------------
(* What the transport may do with a call *)

Responses ==
    { Dict([resource_id |-> "res-1"]),
      Dict([resource_id |-> "", list_id |-> "lst-1", campaign_id |-> "cmp-1"]),
      Dict([campaign_id |-> "cmp-1"]),
      Dict([number_of_leads |-> 1234567, leads |-> <<"lead-1", "lead-2">>]),
      Dict([pagination |-> [next_starting_after |-> "cur-2"]]),
      Dict([pagination |-> EmptyDict]),
      Dict([pagination |-> Null]),
      Dict([resource_id |-> "res-1", _next_steps |-> <<"Open the dashboard.">>]),
      Dict(EmptyDict),
      NonDict(<<"lead-1">>) }

\* Subclasses of Exception, as the transport raises on an HTTP or network failure.
Faults ==
    { [type |-> "InstantlyAPIError", text |-> "HTTP 400: Bad Request"],
      [type |-> "TimeoutError", text |-> "timed out"] }

----------------------------------------------------------------------------
(* The keyword arguments the callers of this model pass *)

\* A keyword left out, or given with one of Vals.
Opt(k, Vals) == {EmptyDict} \cup {k :> v : v \in Vals}

MaxEnrichmentTypes == 2

RECURSIVE SeqsUpTo(_, _)
\* The sequences over S of length 1..n.
SeqsUpTo(S, n) ==
    IF n = 0 THEN {}
    ELSE LET shorter == SeqsUpTo(S, n - 1)
         IN  {<<x>> : x \in S} \cup shorter \cup
             {Append(q, x) : q \in {q \in shorter : Len(q) = n - 1}, x \in S}

CeoInTechnology ==
    [title |-> Some([include |-> Some(<<"CEO">>)]),
     industry |-> Some([include |-> Some(<<"Technology", "Software">>)])]

CaliforniaItem == [state |-> Some("California"), country |-> Some("United States")]

\* A place given by its identifier under the alias, the city left as None.
PlaceItem == [placeId |-> Some("ChIJ-1"), city |-> None]

\* LocationFilter(include=[], exclude=[]), and one with an item on each side.
NoLocations == [include |-> Some(<<>>), exclude |-> Some(<<>>)]
BothSides == [include |-> Some(<<CaliforniaItem>>), exclude |-> Some(<<PlaceItem>>)]

\* Filters given under the aliases, the same under the field names, and list
\* filters given empty or as None.
FilterSamples ==
    { [companyName |-> Some([include |-> Some(<<"Acme">>)]),
       employeeCount |-> Some(<<"0 - 25", "25 - 100">>),
       lookAlike |-> Some("acme.com"),
       keywordFilter |-> Some([exclude |-> Some(<<"crypto">>)]),
       fundingType |-> Some(<<"seed">>),
       skipOwnedLeads |-> Some(TRUE),
       showOneLeadPerCompany |-> Some(FALSE)],
      [company_name |-> Some([include |-> Some(<<"Acme">>)]),
       employee_count |-> Some(<<"0 - 25", "25 - 100">>),
       look_alike |-> Some("acme.com"),
       keyword_filter |-> Some([exclude |-> Some(<<"crypto">>)]),
       funding_type |-> Some(<<"seed">>),
       skip_owned_leads |-> Some(TRUE),
       show_one_lead_per_company |-> Some(FALSE)],
      [department |-> Some(<<>>), level |-> None,
       revenue |-> Some(<<"$1 - 10M">>), domains |-> Some(<<"acme.com">>),
       news |-> Some(<<"hires", "launches">>)] }

FilterArgs ==
    { t @@ i @@ d @@ c @@ l @@ k @@ o :
        t \in Opt("title", {Some(EmptyDict),
                            Some([include |-> Some(<<>>), exclude |-> Some(<<>>)]),
                            Some([include |-> Some(<<"CEO">>)])}),
        i \in Opt("industry", {Some([include |-> Some(<<"Technology", "Software">>)])}),
        d \in Opt("department", {Some(<<"Sales">>)}),
        c \in Opt("companyName", {Some([exclude |-> Some(<<"Initech">>)])}),
        l \in Opt("locations", {Some(EmptyDict), Some(NoLocations),
                                Some([include |-> Some(<<CaliforniaItem>>)]),
                                Some(BothSides)}),
        k \in Opt("skip_owned_leads", {Some(TRUE), Some(FALSE), None}),
        o \in Opt("showOneLeadPerCompany", {Some(TRUE)}) }
    \cup FilterSamples

SearchFilterArgs ==
    FilterSamples \cup
    { EmptyDict, CeoInTechnology,
      [skipOwnedLeads |-> Some(TRUE), department |-> Some(<<"Sales">>)],
      [locations |-> Some(NoLocations)],
      [locations |-> Some(BothSides), title |-> Some([include |-> Some(<<"CEO">>)])],
      [show_one_lead_per_company |-> None] }

SearchArgs ==
    { [search_filters |-> Some(f)] @@ l @@ c @@ e @@ n @@ q @@ m :
        f \in SearchFilterArgs,
        l \in Opt("list_id", {Some(" "), Some("abc")}),
        c \in Opt("campaign_id", {Some(""), Some("cmp-9")}),
        e \in Opt("enrichment_types",
                  {Some(<<>>)} \cup
                  {Some(q) : q \in SeqsUpTo({"work_email_enrichment", "news"},
                                            MaxEnrichmentTypes)}),
        n \in Opt("limit", {None, Some(5), Some(10000), Some(0), Some(10001)}),
        q \in Opt("search_name", {Some("Q3 CEOs")}),
        m \in Opt("list_name", {Some("New list")}) }
    \cup {EmptyDict}

CountArgs == {[search_filters |-> Some(f)] : f \in FilterArgs} \cup {EmptyDict}

ResourceIdArgs == Opt("resource_id", {Some("abc"), Some(" abc "), Some("")})

Flag(k) == Opt(k, {Some(TRUE), Some(FALSE)})

StatusArgs == ResourceIdArgs

CreateArgs ==
    { r @@ t @@ a @@ e @@ k :
        r \in ResourceIdArgs,
        t \in Opt("enrichment_type", {Some("email_verification"), Some("bogus")}),
        a \in Flag("auto_update"),
        e \in Flag("is_evergreen"),
        k \in Opt("skip_already_enriched", {Some(FALSE), None}) }

AIArgs ==
    { r @@ [resource_type |-> Some(t), prompt |-> Some("Summarize {{companyName}}"),
            output_column |-> Some("summary"), model_version |-> Some(v)]
        @@ c @@ o @@ a @@ n :
        r \in ResourceIdArgs,
        t \in {1, 2},
        v \in {"gpt-4.1-mini", "gpt-5"},
        c \in Opt("input_columns", {Some(<<>>), Some(<<"companyName">>)}),
        o \in Flag("overwrite"),
        a \in Flag("auto_update"),
        n \in Opt("limit", {Some(10)}) }

RunArgs ==
    { r @@ l @@ t :
        r \in ResourceIdArgs,
        l \in Opt("lead_ids", {Some(<<>>), Some(<<"lead-1", "lead-2">>)}),
        t \in Opt("enrichment_type", {Some("funding")}) }

HistoryArgs ==
    { r @@ n @@ c :
        r \in ResourceIdArgs,
        n \in Opt("limit", {None, Some(1), Some(5), Some(100), Some(0), Some(101)}),
        c \in Opt("starting_after", {Some(""), Some("cur-1")}) }

SettingsArgs ==
    { r @@ a @@ k @@ e :
        r \in ResourceIdArgs,
        a \in Opt("auto_update", {Some(TRUE), Some(FALSE), None}),
        k \in Flag("skip_rows_without_email"),
        e \in Flag("is_evergreen") }

----------------------------------------------------------------------------
(* An invocation: from the call of the adapter to its result *)

\* Constructing the input model fails: the adapter's body never runs.
Rejected(s, name, kw) ==
    /\ pc' = [pc EXCEPT ![s] = "rejected"]
    /\ tool' = [tool EXCEPT ![s] = name]
    /\ args' = [args EXCEPT ![s] = kw]
    /\ params' = [params EXCEPT ![s] = None]
    /\ request' = [request EXCEPT ![s] = NoCall]
    /\ outcome' = [outcome EXCEPT ![s] = Pending]
    /\ ret' = [ret EXCEPT ![s] = Raises(ValidationError)]
    /\ ncalls' = [ncalls EXCEPT ![s] = 0]

\* The adapter reaches its await with the call req handed to the transport.
\* Mutant: the body is one module-level mapping, so building a request
\* rewrites the request of every invocation still awaiting its call.
Issued_shared_body(s, name, kw, p, req) ==
    /\ pc' = [pc EXCEPT ![s] = "awaiting"]
    /\ tool' = [tool EXCEPT ![s] = name]
    /\ args' = [args EXCEPT ![s] = kw]
    /\ params' = [params EXCEPT ![s] = Some(p)]
    /\ request' = [t \in DOMAIN request |->
                      IF t = s \/ pc[t] = "awaiting" THEN req ELSE request[t]]
    /\ outcome' = [outcome EXCEPT ![s] = Pending]
    /\ ret' = [ret EXCEPT ![s] = NotFinished]
    /\ ncalls' = [ncalls EXCEPT ![s] = 1]

Issued(s, name, kw, p, req) ==
    /\ pc' = [pc EXCEPT ![s] = "awaiting"]
    /\ tool' = [tool EXCEPT ![s] = name]
    /\ args' = [args EXCEPT ![s] = kw]
    /\ params' = [params EXCEPT ![s] = Some(p)]
    /\ request' = [request EXCEPT ![s] = req]
    /\ outcome' = [outcome EXCEPT ![s] = Pending]
    /\ ret' = [ret EXCEPT ![s] = NotFinished]
    /\ ncalls' = [ncalls EXCEPT ![s] = 1]

\* The adapter returns r without having called the transport.
ReturnedEarly(s, name, kw, p, r) ==
    /\ pc' = [pc EXCEPT ![s] = "returned"]
    /\ tool' = [tool EXCEPT ![s] = name]
    /\ args' = [args EXCEPT ![s] = kw]
    /\ params' = [params EXCEPT ![s] = Some(p)]
    /\ request' = [request EXCEPT ![s] = NoCall]
    /\ outcome' = [outcome EXCEPT ![s] = Pending]
    /\ ret' = [ret EXCEPT ![s] = r]
    /\ ncalls' = [ncalls EXCEPT ![s] = 0]

\* Mutant: an input seen before is answered from the result kept for it.
search_supersearch_leads_cached(s, inputs) ==
    /\ pc[s] = "idle"
    /\ \E kw \in inputs :
       LET v == SearchSuperSearchLeadsInput(kw)
           kept == {t \in DOMAIN pc : /\ tool[t] = "search_supersearch_leads"
                                      /\ pc[t] = "returned" /\ args[t] = kw}
       IN  IF ~v.ok
           THEN Rejected(s, "search_supersearch_leads", kw)
           ELSE IF kept # {}
           THEN ReturnedEarly(s, "search_supersearch_leads", kw, v.model,
                              ret[CHOOSE t \in kept : TRUE])
           ELSE Issued(s, "search_supersearch_leads", kw, v.model, search_request(v.model))

search_supersearch_leads(s, inputs) ==
    /\ pc[s] = "idle"
    /\ \E kw \in inputs :
       LET v == SearchSuperSearchLeadsInput(kw)
       IN  IF v.ok
           THEN Issued(s, "search_supersearch_leads", kw, v.model, search_request(v.model))
           ELSE Rejected(s, "search_supersearch_leads", kw)

get_enrichment_status(s, inputs) ==
    /\ pc[s] = "idle"
    /\ \E kw \in inputs :
       LET v == GetEnrichmentStatusInput(kw)
       IN  IF v.ok
           THEN Issued(s, "get_enrichment_status", kw, v.model, status_request(v.model))
           ELSE Rejected(s, "get_enrichment_status", kw)

create_enrichment(s, inputs) ==
    /\ pc[s] = "idle"
    /\ \E kw \in inputs :
       LET v == CreateEnrichmentInput(kw)
       IN  IF v.ok
           THEN Issued(s, "create_enrichment", kw, v.model, create_request(v.model))
           ELSE Rejected(s, "create_enrichment", kw)

create_ai_enrichment(s, inputs) ==
    /\ pc[s] = "idle"
    /\ \E kw \in inputs :
       LET v == CreateAIEnrichmentInput(kw)
       IN  IF v.ok
           THEN Issued(s, "create_ai_enrichment", kw, v.model, ai_request(v.model))
           ELSE Rejected(s, "create_ai_enrichment", kw)

\* Mutant: with no lead_ids the adapter answers without calling the transport.
run_enrichment_nothing_to_run(s, inputs) ==
    /\ pc[s] = "idle"
    /\ \E kw \in inputs :
       LET v == RunEnrichmentInput(kw)
       IN  IF ~v.ok
           THEN Rejected(s, "run_enrichment", kw)
           ELSE IF ~TruthyList(v.model.lead_ids)
           THEN ReturnedEarly(s, "run_enrichment", kw, v.model,
                              Returns(JsonDumps(Dict(EmptyDict))))
           ELSE Issued(s, "run_enrichment", kw, v.model, run_request(v.model))

run_enrichment(s, inputs) ==
    /\ pc[s] = "idle"
    /\ \E kw \in inputs :
       LET v == RunEnrichmentInput(kw)
       IN  IF v.ok
           THEN Issued(s, "run_enrichment", kw, v.model, run_request(v.model))
           ELSE Rejected(s, "run_enrichment", kw)

get_enrichment_history(s, inputs) ==
    /\ pc[s] = "idle"
    /\ \E kw \in inputs :
       LET v == GetEnrichmentHistoryInput(kw)
       IN  IF v.ok
           THEN Issued(s, "get_enrichment_history", kw, v.model, history_request(v.model))
           ELSE Rejected(s, "get_enrichment_history", kw)

count_leads(s, inputs) ==
    /\ pc[s] = "idle"
    /\ \E kw \in inputs :
       LET v == CountLeadsInput(kw)
       IN  IF v.ok
           THEN Issued(s, "count_leads", kw, v.model, count_request(v.model))
           ELSE Rejected(s, "count_leads", kw)

preview_leads(s, inputs) ==
    /\ pc[s] = "idle"
    /\ \E kw \in inputs :
       LET v == PreviewLeadsInput(kw)
       IN  IF v.ok
           THEN Issued(s, "preview_leads", kw, v.model, preview_request(v.model))
           ELSE Rejected(s, "preview_leads", kw)

update_enrichment_settings(s, inputs) ==
    /\ pc[s] = "idle"
    /\ \E kw \in inputs :
       LET v == UpdateEnrichmentSettingsInput(kw)
       IN  IF ~v.ok
           THEN Rejected(s, "update_enrichment_settings", kw)
           ELSE IF settings_nothing_to_update(v.model)
           THEN ReturnedEarly(s, "update_enrichment_settings", kw, v.model,
                              settings_no_fields)
           ELSE Issued(s, "update_enrichment_settings", kw, v.model,
                       settings_request(v.model))

\* The code after the await, by adapter.
OnResult(t, result, p) ==
    CASE t = "search_supersearch_leads" -> search_on_result(result)
      [] t = "get_enrichment_status" -> status_on_result(result)
      [] t = "create_enrichment" -> create_on_result(result, p)
      [] t = "create_ai_enrichment" -> ai_on_result(result, p)
      [] t = "run_enrichment" -> run_on_result(result, p)
      [] t = "get_enrichment_history" -> history_on_result(result)
      [] t = "count_leads" -> count_on_result(result)
      [] t = "preview_leads" -> preview_on_result(result)
      [] t = "update_enrichment_settings" -> settings_on_result(result)

\* The except clause around the await, or its absence, by adapter.
OnFault(t, e, req) ==
    CASE t = "search_supersearch_leads" -> search_on_fault(e, req.kw["json"])
      [] t = "get_enrichment_status" -> status_on_fault(e, req)
      [] t = "create_enrichment" -> create_on_fault(e, req.kw["json"])
      [] t = "create_ai_enrichment" -> ai_on_fault(e, req.kw["json"])
      [] t = "run_enrichment" -> run_on_fault(e, req.kw["json"])
      [] t = "get_enrichment_history" -> history_on_fault(e, req)
      [] t = "count_leads" -> count_on_fault(e, req.kw["json"])
      [] t = "preview_leads" -> preview_on_fault(e, req.kw["json"])
      [] t = "update_enrichment_settings" -> settings_on_fault(e, req.kw["json"])

\* Mutant: a failed call is issued once more before the adapter gives up.
Finish_retry(s, o, r) ==
    IF o.raised /\ ncalls[s] < 2
    THEN /\ ncalls' = [ncalls EXCEPT ![s] = @ + 1]
         /\ UNCHANGED <<pc, tool, args, params, request, outcome, ret>>
    ELSE /\ pc' = [pc EXCEPT ![s] = IF r.kind = "text" THEN "returned" ELSE "raised"]
         /\ outcome' = [outcome EXCEPT ![s] = o]
         /\ ret' = [ret EXCEPT ![s] = r]
         /\ UNCHANGED <<tool, args, params, request, ncalls>>

Finish(s, o, r) ==
    /\ pc' = [pc EXCEPT ![s] = IF r.kind = "text" THEN "returned" ELSE "raised"]
    /\ outcome' = [outcome EXCEPT ![s] = o]
    /\ ret' = [ret EXCEPT ![s] = r]
    /\ UNCHANGED <<tool, args, params, request, ncalls>>

\* The awaited call returns the parsed response.
TransportAnswers(s) ==
    /\ pc[s] = "awaiting"
    /\ \E r \in Responses :
        Finish(s, Answered(r), OnResult(tool[s], r, Get(params[s])))

\* The awaited call raises.
TransportRaises(s) ==
    /\ pc[s] = "awaiting"
    /\ \E e \in Faults :
        Finish(s, Faulted(e), OnFault(tool[s], e, request[s]))

\* The invocation is over; nothing of it is kept.
Discard(s) ==
    /\ pc[s] \in {"returned", "raised", "rejected"}
    /\ pc' = [pc EXCEPT ![s] = "idle"]
    /\ tool' = [tool EXCEPT ![s] = "none"]
    /\ args' = [args EXCEPT ![s] = EmptyDict]
    /\ params' = [params EXCEPT ![s] = None]
    /\ request' = [request EXCEPT ![s] = NoCall]
    /\ outcome' = [outcome EXCEPT ![s] = Pending]
    /\ ret' = [ret EXCEPT ![s] = NotFinished]
    /\ ncalls' = [ncalls EXCEPT ![s] = 0]

Invocations == {"inv"}

Init ==
    /\ pc = [s \in Invocations |-> "idle"]
    /\ tool = [s \in Invocations |-> "none"]
    /\ args = [s \in Invocations |-> EmptyDict]
    /\ params = [s \in Invocations |-> None]
    /\ request = [s \in Invocations |-> NoCall]
    /\ outcome = [s \in Invocations |-> Pending]
    /\ ret = [s \in Invocations |-> NotFinished]
    /\ ncalls = [s \in Invocations |-> 0]

Next ==
    \E s \in Invocations :
        \/ search_supersearch_leads(s, SearchArgs)
        \/ get_enrichment_status(s, StatusArgs)
        \/ create_enrichment(s, CreateArgs)
        \/ create_ai_enrichment(s, AIArgs)
        \/ run_enrichment(s, RunArgs)
        \/ get_enrichment_history(s, HistoryArgs)
        \/ count_leads(s, CountArgs)
        \/ preview_leads(s, CountArgs)
        \/ update_enrichment_settings(s, SettingsArgs)
        \/ TransportAnswers(s)
        \/ TransportRaises(s)
        \/ Discard(s)

Spec == Init /\ [][Next]_vars

----------------------------------------------------------------------------
(* Several invocations at once: each is a coroutine on one event loop, so  *)
(* between the steps of one (up to its await, and from the answer to its   *)
(* return) the steps of the others may come in any order. A finished       *)
(* invocation stays on record until it is discarded, so that invocations   *)
(* made one after the other can be compared as well.                       *)

MaxInFlight == 2

InFlight == 1..MaxInFlight

FewSearchArgs ==
    { [search_filters |-> Some(CeoInTechnology), list_id |-> Some("abc"),
       limit |-> Some(5)],
      [search_filters |-> Some(EmptyDict)],
      [search_filters |-> Some(EmptyDict), limit |-> Some(0)] }

FewCountArgs == {[search_filters |-> Some(CeoInTechnology)]}

FewHistoryArgs == {[resource_id |-> Some("abc"), starting_after |-> Some("cur-1")]}

FewSettingsArgs ==
    { [resource_id |-> Some("abc")],
      [resource_id |-> Some("abc"), is_evergreen |-> Some(FALSE)] }

InitMany ==
    /\ pc = [s \in InFlight |-> "idle"]
    /\ tool = [s \in InFlight |-> "none"]
    /\ args = [s \in InFlight |-> EmptyDict]
    /\ params = [s \in InFlight |-> None]
    /\ request = [s \in InFlight |-> NoCall]
    /\ outcome = [s \in InFlight |-> Pending]
    /\ ret = [s \in InFlight |-> NotFinished]
    /\ ncalls = [s \in InFlight |-> 0]

NextMany ==
    \E s \in InFlight :
        \/ search_supersearch_leads(s, FewSearchArgs)
        \/ count_leads(s, FewCountArgs)
        \/ get_enrichment_history(s, FewHistoryArgs)
        \/ update_enrichment_settings(s, FewSettingsArgs)
        \/ TransportAnswers(s)
        \/ TransportRaises(s)
        \/ Discard(s)

SpecMany == InitMany /\ [][NextMany]_vars

----------------------------------------------------------------------------
(* Properties *)

SearchShaped == {"search_supersearch_leads", "count_leads", "preview_leads"}

\* The invocation has handed a call to the transport.
Called(s) == ncalls[s] = 1
\* The body of that call, and the validated input it was built from.
Body(s) == request[s].kw["json"]
Input(s) == Get(params[s])
\* The transport raised, and the invocation is over.
Failed(s) == pc[s] \in {"returned", "raised"} /\ outcome[s].raised
\* The mapping the returned text parses to.
Parsed(s) == JsonLoads(ret[s].text)

\* C1: the search_filters sent by search_supersearch_leads, count_leads and
\* preview_leads always hold skip_owned_leads and show_one_lead_per_company,
\* each with a boolean value, which is false when the caller did not set it.
C1_FlagsAlwaysPresent ==
    \A s \in Invocations :
        (tool[s] \in SearchShaped /\ Called(s)) =>
            LET sf == Body(s)["search_filters"]
                given == Get(args[s]["search_filters"])
            IN  \A f \in BoolFields :
                    /\ Has(sf, f)
                    /\ sf[f] \in BOOLEAN
                    /\ (Len(Supplied(given, f)) = 0 => sf[f] = FALSE)

\* count_leads sent a body for a caller who set one flag and left the other out.
C1_Witness ==
    \E s \in Invocations :
        /\ tool[s] = "count_leads" /\ Called(s)
        /\ Len(Supplied(Get(args[s]["search_filters"]), "skip_owned_leads")) = 0
        /\ Body(s)["search_filters"]["skip_owned_leads"] = FALSE
        /\ Body(s)["search_filters"]["show_one_lead_per_company"] = TRUE

\* C2: with list_id and campaign_id both non-empty, the body of
\* search_supersearch_leads carries the campaign: resource_id is campaign_id
\* and resource_type is 1.
C2_CampaignWins ==
    \A s \in Invocations :
        (/\ tool[s] = "search_supersearch_leads" /\ Called(s)
         /\ TruthyStr(Input(s).list_id) /\ TruthyStr(Input(s).campaign_id)) =>
            /\ Has(Body(s), "resource_id") /\ Has(Body(s), "resource_type")
            /\ Body(s)["resource_id"] = Get(Input(s).campaign_id)
            /\ Body(s)["resource_type"] = 1

C2_Witness ==
    \E s \in Invocations :
        /\ tool[s] = "search_supersearch_leads" /\ Called(s)
        /\ Input(s).list_id = Some("abc") /\ Input(s).campaign_id = Some("cmp-9")
        /\ Body(s)["resource_id"] = "cmp-9"

\* C3: in a body of search_supersearch_leads, resource_id and resource_type
\* come together or not at all; they are absent exactly when the caller
\* populated neither identifier; resource_type is 1 exactly when the target
\* is taken from campaign_id and 2 exactly when it is taken from list_id.
C3_ResourceTargeting ==
    \A s \in Invocations :
        (tool[s] = "search_supersearch_leads" /\ Called(s)) =>
            LET b == Body(s)
                fromCampaign == TruthyStr(Input(s).campaign_id)
                fromList == TruthyStr(Input(s).list_id) /\ ~fromCampaign
            IN  /\ Has(b, "resource_id") <=> Has(b, "resource_type")
                /\ Has(b, "resource_id") <=> (fromCampaign \/ fromList)
                /\ fromCampaign =>
                        b["resource_type"] = 1 /\ b["resource_id"] = Get(Input(s).campaign_id)
                /\ fromList =>
                        b["resource_type"] = 2 /\ b["resource_id"] = Get(Input(s).list_id)

C3_Witness ==
    \E s \in Invocations :
        /\ tool[s] = "search_supersearch_leads" /\ Called(s)
        /\ Input(s).list_id = Some("abc") /\ ~TruthyStr(Input(s).campaign_id)
        /\ Body(s)["resource_type"] = 2

\* The kinds the caller asked for.
Requested(p) ==
    IF IsNone(p.enrichment_types) THEN {}
    ELSE {Get(p.enrichment_types)[i] : i \in 1..Len(Get(p.enrichment_types))}

\* C4: the enrichment-kind keys of the body of search_supersearch_leads are
\* exactly the kinds the caller listed, each set to true; with none listed
\* (unset or empty) the only one is work_email_enrichment.
C4_EnrichmentFlags ==
    \A s \in Invocations :
        (tool[s] = "search_supersearch_leads" /\ Called(s)) =>
            LET kinds == (DOMAIN Body(s)) \cap EnrichmentType
            IN  /\ \A k \in kinds : Body(s)[k] = TRUE
                /\ kinds = IF Requested(Input(s)) = {}
                           THEN {"work_email_enrichment"}
                           ELSE Requested(Input(s))

C4_Witness ==
    \E s \in Invocations :
        /\ tool[s] = "search_supersearch_leads" /\ Called(s)
        /\ Input(s).enrichment_types = Some(<<"news">>)
        /\ Has(Body(s), "news") /\ ~Has(Body(s), "work_email_enrichment")

\* The input of the worked example: CEOs in Technology or Software, at most
\* 5 leads, into list "abc".
IsExampleInput(p) ==
    /\ p.search_filters = SuperSearchFilters(CeoInTechnology).model
    /\ p.limit = Some(5)
    /\ p.list_id = Some("abc")
    /\ IsNone(p.campaign_id) /\ IsNone(p.enrichment_types)
    /\ IsNone(p.search_name) /\ IsNone(p.list_name)

C6_FiltersOnly ==
    \A s \in Invocations :
        (tool[s] \in {"count_leads", "preview_leads"} /\ Called(s)) =>
            DOMAIN Body(s) = {"search_filters"}

C6_Witness ==
    \E s \in Invocations :
        /\ tool[s] = "preview_leads" /\ Called(s)
        /\ Has(Body(s)["search_filters"], "title")
        /\ DOMAIN Body(s) = {"search_filters"}

\* C7: when the transport raises during search_supersearch_leads, count_leads
\* or preview_leads, the adapter returns text that parses to a mapping with
\* exactly the keys error, the fault's text, and debug_payload, the body that
\* was handed to the transport.
C7_DiagnosticOnFault ==
    \A s \in Invocations :
        (tool[s] \in SearchShaped /\ Failed(s)) =>
            /\ pc[s] = "returned"
            /\ ret[s].kind = "text"
            /\ Parsed(s).isdict
            /\ DOMAIN Parsed(s).val = {"error", "debug_payload"}
            /\ Parsed(s).val["error"] = outcome[s].fault.text
            /\ Parsed(s).val["debug_payload"] = Body(s)

C7_Witness ==
    \E s \in Invocations :
        /\ tool[s] = "search_supersearch_leads" /\ Failed(s)
        /\ ret[s].kind = "text"
        /\ Parsed(s).val["error"] = "HTTP 400: Bad Request"
        /\ Has(Parsed(s).val["debug_payload"], "limit")

\* C8: when the transport raises during get_enrichment_status or
\* get_enrichment_history, the adapter returns no text: the same fault reaches
\* the caller.
C8_StatusHistoryPropagate ==
    \A s \in Invocations :
        (tool[s] \in {"get_enrichment_status", "get_enrichment_history"} /\ Failed(s)) =>
            /\ pc[s] = "raised"
            /\ ret[s] = Raises(outcome[s].fault)

C8_Witness ==
    \E s \in Invocations :
        /\ tool[s] = "get_enrichment_history" /\ Failed(s)
        /\ ret[s].kind = "exception" /\ ret[s].exc.type = "TimeoutError"

Catching == SearchShaped \cup {"create_ai_enrichment", "update_enrichment_settings"}

SettingsFlags == {"auto_update", "skip_rows_without_email", "is_evergreen"}

\* C10: update_enrichment_settings with none of its three flags set returns a
\* mapping with the keys error and hint and calls nothing; with a flag set,
\* true or false, it sends a PATCH whose body holds exactly the flags set.
C10_SettingsBody ==
    \A s \in Invocations :
        (tool[s] = "update_enrichment_settings" /\ pc[s] \notin {"idle", "rejected"}) =>
            LET set == {k \in SettingsFlags : ~IsNone(Input(s)[k])}
            IN  IF set = {}
                THEN /\ ~Called(s) /\ request[s] = NoCall
                     /\ pc[s] = "returned"
                     /\ Parsed(s).isdict
                     /\ DOMAIN Parsed(s).val = {"error", "hint"}
                ELSE /\ Called(s) /\ request[s].method = "PATCH"
                     /\ DOMAIN Body(s) = set
                     /\ \A k \in set : Body(s)[k] = Get(Input(s)[k])

C10_Witness ==
    \E s \in Invocations :
        /\ tool[s] = "update_enrichment_settings" /\ pc[s] = "returned"
        /\ ~Called(s)
        /\ Parsed(s).val["error"] = "No settings provided to update"

\* C11: an invocation hands at most one call to the transport: the count of
\* its calls never exceeds one and rises only on the step that leaves idle;
\* once it awaits that call its next step is to return or raise, with the
\* same single call on record, whether the transport answered or raised.
C11_NoRetry ==
    [][\A s \in Invocations :
        /\ ncalls'[s] <= 1
        /\ ncalls'[s] > ncalls[s] => pc[s] = "idle"
        /\ (pc[s] = "awaiting" /\ pc'[s] # "awaiting") =>
                /\ pc'[s] \in {"returned", "raised"}
                /\ ncalls'[s] = ncalls[s]
                /\ request'[s] = request[s]
        /\ (pc[s] = "awaiting" /\ pc'[s] = "awaiting") =>
                ncalls'[s] = ncalls[s]]_vars

\* The transport raised during a search and the adapter returned its
\* diagnostic with one call made.
C11_Witness ==
    \E s \in Invocations :
        /\ tool[s] = "search_supersearch_leads" /\ Failed(s)
        /\ pc[s] = "returned" /\ ncalls[s] = 1

\* The invocation is over and its input passed validation.
Completed(s) == pc[s] \in {"returned", "raised"}

LimitOutside(s, lo, hi) ==
    /\ "limit" \in DOMAIN args[s] /\ ~IsNone(args[s]["limit"])
    /\ Get(args[s]["limit"]) \notin lo..hi

\* C13: a limit outside 1..10000 passed to search_supersearch_leads, or
\* outside 1..100 passed to get_enrichment_history, ends the invocation in a
\* validation error with no call made; a limit in a search body lies in
\* 1..10000 and a limit in a history query lies in 1..100.
C13_LimitBounds ==
    \A s \in Invocations :
        /\ (tool[s] = "search_supersearch_leads" /\ LimitOutside(s, 1, 10000)) =>
                /\ pc[s] = "rejected" /\ ncalls[s] = 0 /\ request[s] = NoCall
                /\ ret[s] = Raises(ValidationError)
        /\ (tool[s] = "get_enrichment_history" /\ LimitOutside(s, 1, 100)) =>
                /\ pc[s] = "rejected" /\ ncalls[s] = 0 /\ request[s] = NoCall
                /\ ret[s] = Raises(ValidationError)
        /\ (tool[s] = "search_supersearch_leads" /\ Called(s) /\ Has(Body(s), "limit")) =>
                Body(s)["limit"] \in 1..10000
        /\ (tool[s] = "get_enrichment_history" /\ Called(s)
            /\ Has(request[s].kw["params"], "limit")) =>
                request[s].kw["params"]["limit"] \in 1..100

\* A search asking for 10001 leads was refused before any call.
C13_Witness ==
    \E s \in Invocations :
        /\ tool[s] = "search_supersearch_leads" /\ pc[s] = "rejected"
        /\ "limit" \in DOMAIN args[s] /\ args[s]["limit"] = Some(10001)
        /\ ncalls[s] = 0

\* The adapters that name an existing resource, and where each puts its id.
InPath == {"get_enrichment_status", "get_enrichment_history",
           "update_enrichment_settings"}
InBody == {"create_enrichment", "create_ai_enrichment", "run_enrichment"}

\* The resource id as it went to the transport.
SentResourceId(s) ==
    IF tool[s] \in InPath THEN request[s].path[2] ELSE Body(s)["resource_id"]

\* The caller gave no resource_id, or one that is empty once stripped.
NoResourceId(kw) ==
    \/ "resource_id" \notin DOMAIN kw
    \/ IsNone(kw["resource_id"])
    \/ StripWhitespace(Get(kw["resource_id"])) = ""

\* C14: for status, create, create AI, run, history and settings update, an
\* invocation whose resource_id is missing or empty (after stripping) ends in
\* a validation error with no call made, so the resource id in a path or body
\* is never the empty string.
C14_ResourceIdNeverEmpty ==
    \A s \in Invocations :
        (tool[s] \in InPath \cup InBody) =>
            /\ NoResourceId(args[s]) => (pc[s] = "rejected" /\ ncalls[s] = 0)
            /\ Called(s) => SentResourceId(s) # ""

\* The key under which each adapter puts its guidance.
GuidanceKey(t) ==
    CASE t \in {"search_supersearch_leads", "create_enrichment",
                "create_ai_enrichment", "run_enrichment"} -> {"_next_steps"}
      [] t \in {"count_leads", "preview_leads"} -> {"_guidance"}
      [] t = "get_enrichment_history" -> {"_pagination_hint"}
      [] OTHER -> {}

\* The transport answered the invocation with a mapping.
AnsweredMapping(s) ==
    Completed(s) /\ Called(s) /\ ~outcome[s].raised /\ outcome[s].result.isdict

\* C15: for every adapter and every mapping the transport answers with, the
\* adapter returns text that parses to a mapping holding every key of the
\* response with the response's value, and no other key except the adapter's
\* guidance key.
C15_AnnotationOnlyAdds ==
    \A s \in Invocations :
        AnsweredMapping(s) =>
            LET response == outcome[s].result.val
            IN  /\ pc[s] = "returned"
                /\ Parsed(s).isdict
                /\ \A k \in DOMAIN response :
                        Has(Parsed(s).val, k) /\ Parsed(s).val[k] = response[k]
                /\ (DOMAIN Parsed(s).val) \ (DOMAIN response) \subseteq GuidanceKey(tool[s])

\* The method and the path each adapter is to call, the path as the pieces
\* its text is put together from.
Endpoint(t, resource_id) ==
    CASE t = "search_supersearch_leads" ->
            <<"POST", <<"/supersearch-enrichment/enrich-leads-from-supersearch">> >>
      [] t = "get_enrichment_status" ->
            <<"GET", <<"/supersearch-enrichment/", resource_id>> >>
      [] t = "create_enrichment" -> <<"POST", <<"/supersearch-enrichment">> >>
      [] t = "create_ai_enrichment" -> <<"POST", <<"/supersearch-enrichment/ai">> >>
      [] t = "run_enrichment" -> <<"POST", <<"/supersearch-enrichment/run">> >>
      [] t = "get_enrichment_history" ->
            <<"GET", <<"/supersearch-enrichment/history/", resource_id>> >>
      [] t = "count_leads" ->
            <<"POST", <<"/supersearch-enrichment/count-leads-from-supersearch">> >>
      [] t = "preview_leads" ->
            <<"POST", <<"/supersearch-enrichment/preview-leads-from-supersearch">> >>
      [] t = "update_enrichment_settings" ->
            <<"PATCH", <<"/supersearch-enrichment/", resource_id, "/settings">> >>

C17_NoDeduplication ==
    \A s \in InFlight : \A t \in InFlight \ {s} :
        (/\ tool[s] = "search_supersearch_leads" /\ tool[t] = "search_supersearch_leads"
         /\ pc[s] \in {"awaiting", "returned", "raised"}
         /\ pc[t] \in {"awaiting", "returned", "raised"}
         /\ args[s] = args[t]) =>
            /\ ncalls[s] = 1 /\ ncalls[t] = 1
            /\ request[s].method = "POST" /\ request[t].method = "POST"
            /\ request[s] = request[t]
            /\ Completed(s) => outcome[s] # Pending
            /\ Completed(s) /\ ~outcome[s].raised =>
                    ret[s] = search_on_result(outcome[s].result)

\* A search has returned and a second one with the same input awaits its own
\* call, although the transport answered the first.
C17_Witness ==
    \E s \in InFlight : \E t \in InFlight \ {s} :
        /\ tool[s] = "search_supersearch_leads" /\ tool[t] = "search_supersearch_leads"
        /\ args[s] = args[t] /\ "list_id" \in DOMAIN args[s]
        /\ pc[s] = "returned" /\ ~outcome[s].raised
        /\ pc[t] = "awaiting" /\ ncalls[t] = 1
        /\ Body(t) = Body(s)

\* The call an adapter builds from its input alone.
RequestOf(t, p) ==
    CASE t = "search_supersearch_leads" -> search_request(p)
      [] t = "count_leads" -> count_request(p)
      [] t = "get_enrichment_history" -> history_request(p)
      [] t = "update_enrichment_settings" -> settings_request(p)

\* The request and the result of invocation s are those of an invocation
\* running alone on the same input and the same answer of the transport.
AsIfAlone(s) ==
    /\ Called(s) => request[s] = RequestOf(tool[s], Input(s))
    /\ (Called(s) /\ Completed(s)) =>
            ret[s] = IF outcome[s].raised
                     THEN OnFault(tool[s], outcome[s].fault,
                                  RequestOf(tool[s], Input(s)))
                     ELSE OnResult(tool[s], outcome[s].result, Input(s))

\* C18: in every state of every interleaving of the steps of several
\* invocations, the request each invocation has sent and the result it has
\* returned or raised are those it would have running alone: they follow
\* from its own input and its own answer or fault of the transport.
C18_NoInterference ==
    \A s \in InFlight : AsIfAlone(s)

\* Two invocations await their calls at the same time, a search and a
\* history query, each with the request built from its own input.
C18_Witness ==
    \E s \in InFlight : \E t \in InFlight \ {s} :
        /\ pc[s] = "awaiting" /\ pc[t] = "awaiting"
        /\ tool[s] = "search_supersearch_leads" /\ "list_id" \in DOMAIN args[s]
        /\ tool[t] = "get_enrichment_history"
        /\ Body(s)["resource_id"] = "abc"
        /\ request[t].method = "GET"

\* The location filter of the validated input, when the caller gave one.
Locations(s) == Input(s).search_filters.locations

\* C19: when the caller's location filter has neither include nor exclude,
\* or has both as empty lists, the search_filters of the body of
\* search_supersearch_leads, count_leads and preview_leads hold no locations
\* key.
C19_NoEmptyLocations ==
    \A s \in Invocations :
        (/\ tool[s] \in SearchShaped /\ Called(s)
         /\ ~IsNone(Locations(s))
         /\ \/ IsNone(Get(Locations(s)).include) /\ IsNone(Get(Locations(s)).exclude)
            \/ /\ Get(Locations(s)).include = Some(<<>>)
               /\ Get(Locations(s)).exclude = Some(<<>>)) =>
            ~Has(Body(s)["search_filters"], "locations")

\* The keyword under which the caller gave field f of a location item, and
\* the fields the caller set to a value.
GivenAs(item, f) ==
    IF f = "place_id" /\ "placeId" \in DOMAIN item THEN "placeId" ELSE f
CallerSet(item) ==
    {f \in LocationItemFields :
        GivenAs(item, f) \in DOMAIN item /\ ~IsNone(item[GivenAs(item, f)])}

\* The location filter as the caller wrote it.
GivenLocations(s) == Get(Get(args[s]["search_filters"])["locations"])

\* C20: each item of the include and exclude arrays of locations in a body
\* holds exactly the fields the caller set to a value, with the caller's
\* values: a field left out or given as None has no key, so no key of an item
\* is null, and an item given only state and country has exactly those two.
C20_LocationItemKeys ==
    \A s \in Invocations :
        (/\ tool[s] \in SearchShaped /\ Called(s)
         /\ Has(Body(s)["search_filters"], "locations")) =>
            LET sent == Body(s)["search_filters"]["locations"]
            IN  \A side \in DOMAIN sent :
                    /\ Len(sent[side]) = Len(Get(GivenLocations(s)[side]))
                    /\ \A i \in 1..Len(sent[side]) :
                        LET item == Get(GivenLocations(s)[side])[i]
                        IN  /\ DOMAIN sent[side][i] = CallerSet(item)
                            /\ \A f \in CallerSet(item) :
                                 sent[side][i][f] = Get(item[GivenAs(item, f)])

\* A body went out whose included item has state and country only and whose
\* excluded item has place_id only.
C20_Witness ==
    \E s \in Invocations :
        /\ tool[s] = "search_supersearch_leads" /\ Called(s)
        /\ Has(Body(s)["search_filters"], "locations")
        /\ LET sent == Body(s)["search_filters"]["locations"]
           IN  /\ DOMAIN sent = {"include", "exclude"}
               /\ Len(sent["include"]) = 1 /\ Len(sent["exclude"]) = 1
               /\ DOMAIN sent["include"][1] = {"state", "country"}
               /\ DOMAIN sent["exclude"][1] = {"place_id"}

\* The search filters of the validated input.
Filters(s) == Input(s).search_filters

\* An include/exclude filter the caller supplied without any value: both
\* lists unset, or both empty.
NoValues(ie) ==
    \/ IsNone(ie.include) /\ IsNone(ie.exclude)
    \/ ie.include = Some(<<>>) /\ ie.exclude = Some(<<>>)

\* C21: a title, industry, company_name or keyword_filter filter supplied
\* with no values is sent in search_filters as a mapping whose only key is
\* include, holding the empty list.
C21_EmptyIncludePlaceholder ==
    \A s \in Invocations :
        (tool[s] \in SearchShaped /\ Called(s)) =>
            \A f \in IEFields :
                (~IsNone(Filters(s)[f]) /\ NoValues(Get(Filters(s)[f]))) =>
                    /\ Has(Body(s)["search_filters"], f)
                    /\ DOMAIN Body(s)["search_filters"][f] = {"include"}
                    /\ Len(Body(s)["search_filters"][f]["include"]) = 0

\* The search filters as the caller wrote them, and whether the caller gave
\* field f a value, under either of its names.
GivenFilters(s) == Get(args[s]["search_filters"])
IsSet(kw, f) == Len(Supplied(kw, f)) = 1 /\ ~IsNone(Supplied(kw, f)[1])

\* C22: in the search_filters of a body, each of department, level,
\* employee_count, revenue, domains, funding_type and news that the caller
\* set is the caller's list itself under the field's name; one the caller
\* left unset or gave as None has no key; and apart from the two flags the
\* keys are exactly the fields the caller set, so none stands for a null.
C22_FlatArrays ==
    \A s \in Invocations :
        (tool[s] \in SearchShaped /\ Called(s)) =>
            LET sf == Body(s)["search_filters"]
            IN  /\ \A f \in ListFields :
                    IF IsSet(GivenFilters(s), f)
                    THEN Has(sf, f) /\ sf[f] = Get(Supplied(GivenFilters(s), f)[1])
                    ELSE ~Has(sf, f)
                /\ (DOMAIN sf) \ BoolFields =
                        {f \in FilterFields \ BoolFields : IsSet(GivenFilters(s), f)}

\* A search went out with four list filters as bare lists, department among
\* them as the empty list the caller gave, and no key for level.
C22_Witness ==
    \E s \in Invocations :
        /\ tool[s] = "search_supersearch_leads" /\ Called(s)
        /\ (DOMAIN Body(s)["search_filters"]) \cap ListFields =
                {"department", "revenue", "domains", "news"}
        /\ Body(s)["search_filters"]["news"] = <<"hires", "launches">>
        /\ Len(Body(s)["search_filters"]["department"]) = 0

\* The snake_case name of a keyword of the filters, and the caller's filters
\* with every keyword written under that name.
SnakeCase(k) ==
    CASE k = "companyName" -> "company_name"
      [] k = "employeeCount" -> "employee_count"
      [] k = "lookAlike" -> "look_alike"
      [] k = "keywordFilter" -> "keyword_filter"
      [] k = "fundingType" -> "funding_type"
      [] k = "skipOwnedLeads" -> "skip_owned_leads"
      [] k = "showOneLeadPerCompany" -> "show_one_lead_per_company"
      [] OTHER -> k
InSnakeCase(kw) ==
    [n \in {SnakeCase(k) : k \in DOMAIN kw} |->
        kw[CHOOSE k \in DOMAIN kw : SnakeCase(k) = n]]

\* The search_filters the three adapters build from validated filters.
FiltersSentBy(t, filters) ==
    CASE t = "search_supersearch_leads" ->
            search_ensure_flags(search_copy_filters(DumpFilters(filters)))
      [] t = "count_leads" ->
            count_ensure_flags(count_copy_filters(DumpFilters(filters)))
      [] t = "preview_leads" ->
            preview_ensure_flags(preview_copy_filters(DumpFilters(filters)))

\* C23: the search_filters of a body are those the same adapter builds when
\* every filter is given under its snake_case name instead of the alias the
\* caller used; every key is a snake_case field name, and a place given
\* under placeId is sent under place_id.
C23_AliasIndependent ==
    \A s \in Invocations :
        (tool[s] \in SearchShaped /\ Called(s)) =>
            LET sf == Body(s)["search_filters"]
                renamed == SuperSearchFilters(InSnakeCase(GivenFilters(s)))
            IN  /\ renamed.ok
                /\ sf = FiltersSentBy(tool[s], renamed.model)
                /\ DOMAIN sf \subseteq FilterFields
                /\ Has(sf, "locations") =>
                    \A side \in DOMAIN sf["locations"] :
                        \A i \in 1..Len(sf["locations"][side]) :
                            DOMAIN sf["locations"][side][i] \subseteq LocationItemFields

\* A count went out for filters given under the seven aliases, with the
\* seven snake_case keys in its search_filters.
C23_Witness ==
    \E s \in Invocations :
        /\ tool[s] = "count_leads" /\ Called(s)
        /\ {"companyName", "employeeCount", "lookAlike", "keywordFilter",
            "fundingType", "skipOwnedLeads", "showOneLeadPerCompany"}
                \subseteq DOMAIN GivenFilters(s)
        /\ DOMAIN Body(s)["search_filters"] =
            {"company_name", "employee_count", "look_alike", "keyword_filter",
             "funding_type", "skip_owned_leads", "show_one_lead_per_company"}

\* The next cursor a history response holds, or the empty text when its
\* pagination is absent, null, empty or without one.
NextCursor(response) ==
    IF /\ Has(response, "pagination")
       /\ response["pagination"] # Null
       /\ Has(response["pagination"], "next_starting_after")
    THEN response["pagination"]["next_starting_after"]
    ELSE ""

\* C24: the query of get_enrichment_history holds limit exactly when the
\* input's limit is set and starting_after exactly when the input's cursor
\* is non-empty, each with the input's value; and to every mapping the
\* transport answers with the adapter returns text whose mapping holds
\* _pagination_hint exactly when the response holds a non-empty next cursor,
\* the hint quoting that cursor.
C24_HistoryQueryAndHint ==
    \A s \in Invocations :
        (tool[s] = "get_enrichment_history" /\ Called(s)) =>
            LET query == request[s].kw["params"] IN
            /\ Has(query, "limit") <=> ~IsNone(Input(s).limit)
            /\ Has(query, "limit") => query["limit"] = Get(Input(s).limit)
            /\ Has(query, "starting_after") <=> TruthyStr(Input(s).starting_after)
            /\ Has(query, "starting_after") =>
                    query["starting_after"] = Get(Input(s).starting_after)
            /\ AnsweredMapping(s) =>
                LET cursor == NextCursor(outcome[s].result.val) IN
                /\ pc[s] = "returned"
                /\ Parsed(s).isdict
                /\ Has(Parsed(s).val, "_pagination_hint") <=> cursor # ""
                /\ cursor # "" => Parsed(s).val["_pagination_hint"][2] = cursor

\* The identifiers a started enrichment may answer with, in the order read.
IdKeys == <<"resource_id", "list_id", "campaign_id">>
\* The first of them the mapping holds with a non-empty value, "" when none.
FirstId(d) ==
    LET hits == {i \in 1..Len(IdKeys) : Has(d, IdKeys[i]) /\ d[IdKeys[i]] # ""}
    IN  IF hits = {} THEN ""
        ELSE d[IdKeys[CHOOSE i \in hits : \A j \in hits : i <= j]]

\* C25: to every response search_supersearch_leads returns text that parses
\* to the response with _next_steps added exactly when the response is a
\* mapping holding a non-empty resource_id, list_id or campaign_id, the text
\* of _next_steps quoting the first non-empty of them in that order; every
\* other response is returned as it came, with no key added.
C25_NextStepsIffIdentifier ==
    \A s \in Invocations :
        (/\ tool[s] = "search_supersearch_leads"
         /\ Completed(s) /\ Called(s) /\ ~outcome[s].raised) =>
            LET response == outcome[s].result
                id == IF response.isdict THEN FirstId(response.val) ELSE ""
            IN  /\ pc[s] = "returned"
                /\ id = "" => Parsed(s) = response
                /\ id # "" =>
                    /\ Parsed(s).isdict
                    /\ DOMAIN Parsed(s).val = DOMAIN response.val \cup {"_next_steps"}
                    /\ Parsed(s).val["_next_steps"][2] = id
                    /\ \A k \in DOMAIN response.val \ {"_next_steps"} :
                            Parsed(s).val[k] = response.val[k]

\* An enrichment answered with an empty resource_id, a list_id and a
\* campaign_id: the guidance quotes the list_id.
C25_Witness ==
    \E s \in Invocations :
        /\ tool[s] = "search_supersearch_leads"
        /\ pc[s] = "returned" /\ Called(s) /\ ~outcome[s].raised
        /\ outcome[s].result.isdict
        /\ Has(outcome[s].result.val, "list_id")
        /\ outcome[s].result.val["resource_id"] = ""
        /\ Parsed(s).val["_next_steps"][2] = "lst-1"

\* C26: for the filters of any call of search_supersearch_leads, count_leads
\* or preview_leads, the search_filters sent are those each of the three
\* adapters builds from the same filters: the three normalize alike.
C26_SameNormalization ==
    \A s \in Invocations :
        (tool[s] \in SearchShaped /\ Called(s)) =>
            \A t \in SearchShaped :
                FiltersSentBy(t, Filters(s)) = Body(s)["search_filters"]

\* preview_leads has sent filters holding a title filter, a list filter and
\* a flag the caller set, and they are the ones the other two adapters build.
C26_Witness ==
    \E s \in Invocations :
        /\ tool[s] = "preview_leads" /\ Called(s)
        /\ Filters(s).skip_owned_leads
        /\ ~IsNone(Filters(s).department)
        /\ Has(Body(s)["search_filters"], "department")
        /\ Body(s)["search_filters"] =
                FiltersSentBy("search_supersearch_leads", Filters(s))
        /\ Body(s)["search_filters"] = FiltersSentBy("count_leads", Filters(s))

\* The caller gave the keyword k with a value other than None.
Given(s, k) == Has(args[s], k) /\ ~IsNone(args[s][k])
\* The body holds the flag k exactly when the caller gave it true or false,
\* and then with the caller's value.
FlagAsGiven(s, k) ==
    /\ Has(Body(s), k) <=> Given(s, k)
    /\ Given(s, k) => Body(s)[k] = Get(args[s][k])
\* The body holds the list k exactly when the caller gave a non-empty list,
\* and then the caller's list.
ListAsGiven(s, k) ==
    /\ Has(Body(s), k) <=> (Given(s, k) /\ Get(args[s][k]) # <<>>)
    /\ Has(Body(s), k) => Body(s)[k] = Get(args[s][k])
\* The body holds the key k with the value of the input's field f.
Required(s, k, f) == Has(Body(s), k) /\ Body(s)[k] = Input(s)[f]

====
